---- MODULE Spec2Model ----
(***************************************************************************)
(* Model of archiver.py (Lowercase sigmabot III): one page's archival run  *)
(* as driven by the outer loop of __main__: configuration extraction,      *)
(* thread extraction, the security gate, the archive planner               *)
(* (Archiver.archive_threads up to its first yield), the source page save  *)
(* (DiscussionPage.update), the destination writes (archive_threads after  *)
(* the yield), and the outer loop's error handling with the rollback       *)
(* (Archiver.unarchive_threads).                                           *)
(*                                                                         *)
(* Strings that the code parses are sequences of one-character strings;    *)
(* the destination pattern is a sequence of tokens.  Page text is kept as  *)
(* the sequence of its thread texts plus the values of the control         *)
(* template's parameters.                                                  *)
(*                                                                         *)
(* Spec is one attempt on one page, OuterSpec adds the outer loop's redo   *)
(* of the victim, FairSpec is the attempt that keeps running, CursorSpec   *)
(* drives a RedoableIterator on its own, CallSpec calls str2time and       *)
(* str2size on short texts and UpdateSpec calls DiscussionPage.update.     *)
(***************************************************************************)
EXTENDS Integers, Sequences, FiniteSets, TLC

(***************************************************************************)
(* Bounds of the model                                                     *)
(***************************************************************************)
\* longest page (number of threads) the initial states enumerate
MaxThreads == 3
\* number of threads of the all-stale pages that are enumerated besides
NumStaleScenario == 5
\* attempts the outer loop may spend on one page in the model (redo)
MaxAttempts == 2
\* destinations reached with a counter above this one do not exist yet
MaxExistingCounter == 2
\* longest sequence a RedoableIterator is driven over on its own
MaxCursorLen == 3
\* number of calls made on that iterator
MaxCursorOps == 6
\* longest text passed to str2time and str2size on their own
MaxArgLen == 3

(***************************************************************************)
(* Program constants                                                       *)
(***************************************************************************)
SecondsPerHour == 3600
SecondsPerDay == 86400
Kilo == 1024
FutureDays == 365

\* Arrow.utcnow() of the run, in seconds (day 500 of the model's calendar)
Now == 500 * SecondsPerDay
\* THE_FUTURE = Arrow.utcnow() + timedelta(365)
THE_FUTURE == Now + FutureDays * SecondsPerDay

(***************************************************************************)
(* Small helpers                                                           *)
(***************************************************************************)
Range(s) == {s[i] : i \in 1..Len(s)}

Last(s) == s[Len(s)]

Front(s) == SubSeq(s, 1, Len(s) - 1)

MaxOf(S) == CHOOSE x \in S : \A y \in S : y <= x

(***************************************************************************)
(* str2time / str2size on character sequences                              *)
(***************************************************************************)
Digits == {"0", "1", "2", "3", "4", "5", "6", "7", "8", "9"}

DigitVal(c) ==
    CASE c = "0" -> 0 [] c = "1" -> 1 [] c = "2" -> 2 [] c = "3" -> 3
      [] c = "4" -> 4 [] c = "5" -> 5 [] c = "6" -> 6 [] c = "7" -> 7
      [] c = "8" -> 8 [] c = "9" -> 9

\* str.lower() on one character
lower(c) ==
    CASE c = "D" -> "d" [] c = "H" -> "h" [] c = "B" -> "b" [] c = "K" -> "k"
      [] c = "M" -> "m" [] c = "T" -> "t" [] OTHER -> c

\* str.isdecimal(): non-empty and every character a decimal digit
isdecimal(s) == s # <<>> /\ \A i \in 1..Len(s) : s[i] \in Digits

RECURSIVE DecVal(_)
DecVal(s) == IF s = <<>> THEN 0 ELSE 10 * DecVal(Front(s)) + DigitVal(Last(s))

\* int(s): an optional sign and a non-empty run of digits, else ValueError
IntOk(s) ==
    IF s # <<>> /\ s[1] \in {"-", "+"} THEN isdecimal(Tail(s)) ELSE isdecimal(s)

IntVal(s) ==
    IF s[1] = "-" THEN 0 - DecVal(Tail(s))
    ELSE IF s[1] = "+" THEN DecVal(Tail(s)) ELSE DecVal(s)

Ok(v) == [ok |-> TRUE, val |-> v]

Raise(e) == [ok |-> FALSE, err |-> e]

\* str2time with the hours suffix read as days
str2time_HoursAsDays(s) ==
    IF s = <<>> THEN Raise("IndexError")
    ELSE IF lower(Last(s)) = "d"
         THEN IF IntOk(Front(s)) THEN Ok(IntVal(Front(s)) * 24 * SecondsPerHour)
              ELSE Raise("ValueError")
    ELSE IF lower(Last(s)) = "h"
         THEN IF IntOk(Front(s)) THEN Ok(IntVal(Front(s)) * 24 * SecondsPerHour)
              ELSE Raise("ValueError")
    ELSE IF IntOk(s) THEN Ok(IntVal(s)) ELSE Raise("ValueError")

\* str2time: seconds of "<n>d", "<n>h" or "<n>"
str2time(s) ==
    IF s = <<>> THEN Raise("IndexError")
    ELSE IF lower(Last(s)) = "d"
         THEN IF IntOk(Front(s)) THEN Ok(IntVal(Front(s)) * 24 * SecondsPerHour)
              ELSE Raise("ValueError")
    ELSE IF lower(Last(s)) = "h"
         THEN IF IntOk(Front(s)) THEN Ok(IntVal(Front(s)) * SecondsPerHour)
              ELSE Raise("ValueError")
    ELSE IF IntOk(s) THEN Ok(IntVal(s)) ELSE Raise("ValueError")

\* allowed_units of str2size (the defaultdict's explicit keys)
UnitKeys == {"b", "k", "m", "t"}

\* allowed_units in which the empty unit stands for megabytes
UnitMultiplier_Mega(unit) ==
    CASE unit = "b" -> 1
      [] unit = "k" -> Kilo
      [] unit = "t" -> 1
      [] OTHER -> Kilo * Kilo

\* allowed_units[unit]; a missing key yields the default 1024 * 1024
UnitMultiplier(unit) ==
    CASE unit = "b" -> 1
      [] unit = "k" -> Kilo
      [] unit = "m" -> Kilo * Kilo
      [] unit = "t" -> 1
      [] unit = "" -> 1
      [] OTHER -> Kilo * Kilo

\* str2size: (size, "T" | "B"), TypeError on bad input, IndexError on ""
str2size(s0) ==
    IF s0 = <<>> THEN Raise("IndexError")
    ELSE LET unit0 == lower(Last(s0))
             s == IF unit0 \in UnitKeys THEN Front(s0) ELSE s0
             unit == IF isdecimal(s \o <<unit0>>) THEN "" ELSE unit0
         IN  IF unit0 \notin UnitKeys /\ unit0 \notin Digits THEN Raise("TypeError")
             ELSE IF ~isdecimal(s) THEN Raise("TypeError")
             ELSE IF DecVal(s) = 0 THEN Raise("TypeError")
             ELSE Ok(<<DecVal(s) * UnitMultiplier(unit),
                       IF unit = "t" THEN "T" ELSE "B">>)

(***************************************************************************)
(* Pages, threads, destination patterns                                    *)
(***************************************************************************)
\* title of the page being archived
Title == "Page"

TitleSlash == "Page/"

\* stamps that occur on the model's pages (seconds; a 365-day calendar)
StampOld == 10 * SecondsPerDay

StampMid == 40 * SecondsPerDay

\* an hour before the run
StampNew == Now - SecondsPerHour

\* the tenth day of the year after that of StampOld
StampNextYear == 375 * SecondsPerDay

\* Arrow.year, Arrow.month of a stamp in the model's calendar
YearOf(stamp) == 1970 + (stamp \div (365 * SecondsPerDay))

MonthOf(stamp) ==
    LET m == 1 + ((stamp % (365 * SecondsPerDay)) \div (31 * SecondsPerDay))
    IN  IF m > 12 THEN 12 ELSE m

\* a section of the fetched page: heading level, the stamps of its body that
\* strptime accepts, and the length of its text
OldThread == [level |-> 2, stamps |-> {StampOld}, len |-> 1]

LongThread == [level |-> 2, stamps |-> {StampOld, StampMid}, len |-> 2]

NewThread == [level |-> 2, stamps |-> {StampNew}, len |-> 1]

NextYearThread == [level |-> 2, stamps |-> {StampNextYear}, len |-> 1]

UnsignedThread == [level |-> 2, stamps |-> {}, len |-> 1]

TopLevelThread == [level |-> 1, stamps |-> {StampOld}, len |-> 1]

ThreadKinds == {OldThread, LongThread, NewThread, UnsignedThread}

SeqsUpTo(S, n) == UNION {[1..k -> S] : k \in 0..n}

\* every page of up to MaxThreads threads, and the page of NumStaleScenario
\* threads that are all stale
Pages == SeqsUpTo(ThreadKinds, MaxThreads) \cup {[i \in 1..NumStaleScenario |-> OldThread]}

\* the pages that the unusual templates are tried on
FewPages ==
    {<<>>, <<OldThread>>, <<OldThread, LongThread>>, <<TopLevelThread, OldThread>>,
     <<OldThread, UnsignedThread, NewThread>>}

\* pages whose stale threads, oldest first, fall in January, in February and
\* in January of the next year
ReturningPages ==
    {<<OldThread, LongThread, NextYearThread>>, <<NextYearThread, LongThread, OldThread>>}

\* destination patterns (config 'archive' as written in the template)
PatCounter == <<TitleSlash, "Archive", " ", "%(counter)d">>

PatUnderscore == <<TitleSlash, "Archive", "_", "%(counter)d">>

PatYear == <<TitleSlash, "Archive", " ", "%(year)d">>

PatMonth == <<TitleSlash, "Archive", " ", "%(month)d">>

PatFixed == <<TitleSlash, "Archive">>

PatForeign == <<"Other/", "Archive", " ", "%(counter)d">>

Patterns ==
    {PatCounter, PatUnderscore, PatYear, PatMonth, PatFixed, PatForeign,
     <<"none">>, <<"NONE">>}

\* the spellings run() treats as "do not post to an archive"
DiscardWords ==
    {<<"/dev/null">>, <<"None">>, <<"Nowhere">>, <<"none">>, <<"nowhere">>}

\* str.replace("_", " ")
ReplaceUnderscore(p) == [i \in 1..Len(p) |-> IF p[i] = "_" THEN " " ELSE p[i]]

RECURSIVE Strip(_)
Strip(p) ==
    IF p = <<>> THEN p
    ELSE IF p[1] = " " THEN Strip(Tail(p))
    ELSE IF Last(p) = " " THEN Strip(Front(p))
    ELSE p

\* fmt_str % params
Format(fmt, params) ==
    [i \in 1..Len(fmt) |->
        CASE fmt[i] = "%(counter)d" -> ToString(params.counter)
          [] fmt[i] = "%(year)d" -> ToString(params.year)
          [] fmt[i] = "%(month)d" -> ToString(params.month)
          [] OTHER -> fmt[i]]

startswith(p, prefix) == p # <<>> /\ p[1] = prefix

\* make_key(title): the keyed hash, an opaque value per title
make_key(title) == <<"md5", "salt", title>>

\* str(n) for n >= 0
DigitChar(d) == <<"0", "1", "2", "3", "4", "5", "6", "7", "8", "9">>[d + 1]

RECURSIVE IntStr(_)
IntStr(n) == IF n < 10 THEN <<DigitChar(n)>> ELSE IntStr(n \div 10) \o <<DigitChar(n % 10)>>

(***************************************************************************)
(* Control template values the initial pages carry                         *)
(***************************************************************************)
AlgoDay == [form |-> "old", arg |-> <<"1", "d">>]

AlgoBadDuration == [form |-> "old", arg |-> <<"5", "x">>]

AlgoMalformed == [form |-> "other", arg |-> <<>>]

\* "old(-1d)": a negative duration
AlgoNegative == [form |-> "old", arg |-> <<"-", "1", "d">>]

\* a character the regular expression's \w accepts
IsWordChar(c) == c \notin {"-", "+", " ", "(", ")"}

\* re.search(r"^old\((\w+)\)$", algo) finds a match
AlgoMatches(algo) ==
    /\ algo.form = "old"
    /\ algo.arg # <<>>
    /\ \A i \in 1..Len(algo.arg) : IsWordChar(algo.arg[i])

GoodKey == make_key(Title)

BadKey == <<>>

\* a parameter the template does not carry: the default of __init__ stays
Unset == <<"(unset)">>

UnsetAlgo == [form |-> "(unset)", arg |-> <<>>]

\* the template of a page whose policy is the usual one
BaseTemplate ==
    [tpl |-> TRUE, algo |-> AlgoDay, archive |-> PatCounter,
     maxarchivesize |-> <<"2", "T">>, minthreadsleft |-> <<"0">>,
     minthreadstoarchive |-> <<"1">>, counter |-> <<"1">>, key |-> GoodKey]

\* policies that plan and commit: every pattern with either kind of size
\* limit, and every floor with the counter pattern
WorkingTemplates ==
    { [BaseTemplate EXCEPT !.archive = a, !.maxarchivesize = m] :
        a \in {PatCounter, PatYear, PatMonth, PatFixed}, m \in {<<"2", "T">>, <<"3", "B">>} }
    \cup { [BaseTemplate EXCEPT !.minthreadsleft = l, !.minthreadstoarchive = b] :
             l \in {<<"0">>, <<"2">>}, b \in {<<"1">>, <<"2">>} }

\* values of the counter parameter besides "1": zero, zeros, a letter, a
\* negative number, a complex number, and numbers above one
OddCounters ==
    {<<"0">>, <<"0", "0">>, <<"x">>, <<"-", "3">>, <<"-", "3", "+", "4", "j">>,
     <<"2">>, <<"1", "2">>}

\* policies with one value changed to a foreign, malformed or unusual one
OddTemplatesFor(a) ==
    { [BaseTemplate EXCEPT !.archive = a, !.key = k] : k \in {GoodKey, BadKey} }
    \cup { [BaseTemplate EXCEPT !.archive = a, !.algo = g] :
             g \in {AlgoBadDuration, AlgoMalformed, AlgoNegative} }
    \cup { [BaseTemplate EXCEPT !.archive = a, !.maxarchivesize = m] :
             m \in {<<"x">>, <<"0">>, <<>>} }
    \cup { [BaseTemplate EXCEPT !.archive = a, !.counter = c] : c \in OddCounters }
    \cup { [BaseTemplate EXCEPT !.archive = a, !.minthreadsleft = <<"x">>],
           [BaseTemplate EXCEPT !.archive = a, !.tpl = FALSE] }

OddTemplates ==
    UNION {OddTemplatesFor(a) : a \in Patterns}

\* a template that names the destination and the floor of five threads and
\* leaves every other parameter to the defaults of __init__
DefaultsTemplate ==
    [tpl |-> TRUE, algo |-> UnsetAlgo, archive |-> PatCounter,
     maxarchivesize |-> Unset, minthreadsleft |-> <<"5">>,
     minthreadstoarchive |-> Unset, counter |-> Unset, key |-> <<>>]

\* the pages of six threads of which three are stale
SixThreadPages ==
    {p \in [1..6 -> {OldThread, NewThread}] :
        Cardinality({i \in 1..6 : p[i] = OldThread}) = 3}

\* the pages the runs start from
InitialPages ==
    {[template |-> t, threads |-> p] : t \in WorkingTemplates, p \in Pages}
    \cup {[template |-> t, threads |-> p] : t \in OddTemplates, p \in FewPages}
    \cup {[template |-> DefaultsTemplate, threads |-> p] : p \in SixThreadPages}
    \cup {[template |-> [BaseTemplate EXCEPT !.archive = PatMonth, !.maxarchivesize = m],
           threads |-> p] : m \in {<<"2", "T">>, <<"3", "B">>}, p \in ReturningPages}
    \cup {[template |-> [BaseTemplate EXCEPT !.minthreadstoarchive = <<"0">>, !.counter = c],
           threads |-> p] : c \in {<<"1">>, <<"0">>}, p \in FewPages}
    \cup {[template |-> [BaseTemplate EXCEPT !.archive = a, !.maxarchivesize = <<"1", "B">>],
           threads |-> p] : a \in {PatCounter, PatMonth}, p \in FewPages \cup ReturningPages}

\* the slot of a thread removed from the page ("")
Empty == [level |-> 0, stamps |-> {}, len |-> 0]

\* the defaults of __init__ with minthreadstoarchive = 1
DefaultConfig_BotherOne ==
    [algo |-> [form |-> "old", arg |-> <<"2", "4", "h">>],
     archive |-> <<>>,
     maxarchivesize |-> <<"1", "9", "5", "4", "K">>,
     minthreadsleft |-> 5,
     minthreadstoarchive |-> 1,
     counter |-> 1,
     oldcounter |-> 1,
     key |-> <<>>]

\* Archiver.__init__: the defaults of self.config
DefaultConfig ==
    [algo |-> [form |-> "old", arg |-> <<"2", "4", "h">>],
     archive |-> <<>>,
     maxarchivesize |-> <<"1", "9", "5", "4", "K">>,
     minthreadsleft |-> 5,
     minthreadstoarchive |-> 2,
     counter |-> 1,
     oldcounter |-> 1,
     key |-> <<>>]

\* no exception in flight
NoExc == [type |-> "none", phase |-> "none"]

\* no guarded save was made yet
NoSave == [responses |-> <<>>, tries |-> 0, applied |-> FALSE, cached |-> FALSE,
           raises |-> "none"]

\* no attempt was redone yet
NoPlan == [made |-> FALSE, to_touch |-> <<>>, indexes |-> <<>>, counter |-> 0]

\* a call that has not returned
Pending == [ok |-> FALSE, err |-> "pending"]

\* RedoableIterator.__init__
RedoableIterator(seq) == [data |-> seq, redo |-> FALSE, val |-> 0]

\* __next__ that leaves the flag set
ItNext_KeepsRedo(it) ==
    IF it.redo THEN it
    ELSE [data |-> Tail(it.data), redo |-> FALSE, val |-> Head(it.data)]

\* RedoableIterator.__next__ (the caller tests for StopIteration first)
ItHasNext(it) == it.redo \/ it.data # <<>>

ItNext(it) ==
    IF it.redo THEN [it EXCEPT !.redo = FALSE]
    ELSE [data |-> Tail(it.data), redo |-> FALSE, val |-> Head(it.data)]

\* redo that leaves the flag as it is
ItRedo_Forgets(it) == it

\* RedoableIterator.redo
ItRedo(it) == [it EXCEPT !.redo = TRUE]

(***************************************************************************)
(* State                                                                   *)
(***************************************************************************)
VARIABLES
    wiki,                      \* the source page on the wiki: template values and thread texts
    remote_archives,           \* destination title -> texts written to it by this program
    writes,                    \* the remote writes issued so far, in order
    attempts,                  \* number of Archiver objects the outer loop made for the page
    pc,                        \* position in run() / the outer loop
    exc,                       \* the exception propagating out of run()
    content,                   \* self.page.content, as fetched
    config,                    \* self.config
    talkhead,                  \* self.page.talkhead (the template values it carries)
    threads,                   \* self.page.threads
    sections,                  \* self.page.sections
    archives_touched,          \* self.archives_touched
    indexes_in_archives,       \* self.indexes_in_archives
    archives_to_touch,         \* the generator's ordered dict, as a sequence of entries
    archives_actually_touched, \* the generator's list
    arch_pages,                \* the generator's page cache: title -> page.exists
    arch_thread_count,         \* the generator's running thread count
    arch_size,                 \* the generator's running size
    arched_so_far,             \* the generator's count of accepted threads
    max_arch_size,             \* str2size(config['maxarchivesize'])
    threads_with_indices,      \* the RedoableIterator over the sorted indices
    source_saved,              \* an edit of the source page took effect in this attempt
    rolled_back,               \* unarchive_threads() ran in this attempt
    subvictims,                \* the outer loop's RedoableIterator over the victims
    remote_existing,           \* destination title -> what it held before this program wrote
    last_save,                 \* how the latest guarded save went
    first_plan,                \* the plan of the attempt before the redo
    fn,                        \* the function a caller applies (str2time, str2size)
    arg,                       \* its argument
    result,                    \* what the call returned or raised
    cursor,                    \* a RedoableIterator driven by a loop
    history                    \* the calls made on cursor, with what they returned

\* the state of a call of one of the module-level functions
call_vars == <<fn, arg, result>>

\* the state of a loop over a RedoableIterator
cursor_vars == <<cursor, history>>

\* what a run of one Archiver leaves alone
outer_vars == <<attempts, first_plan, call_vars, cursor_vars>>

\* the state of the outer loop working on a page
run_vars ==
    <<wiki, remote_archives, writes, attempts, pc, exc, content, config, talkhead,
      threads, sections, archives_touched, indexes_in_archives, archives_to_touch,
      archives_actually_touched, arch_pages, arch_thread_count, arch_size,
      arched_so_far, max_arch_size, threads_with_indices, source_saved, rolled_back,
      subvictims, remote_existing, last_save, first_plan>>

vars == <<run_vars, call_vars, cursor_vars>>

remote_vars == <<wiki, remote_archives, writes>>

planner_vars ==
    <<archives_to_touch, archives_actually_touched, arch_pages, arch_thread_count,
      arch_size, arched_so_far, max_arch_size, threads_with_indices>>

\* a new Archiver that shares indexes_in_archives with the one before it
FreshArchiver_SharedIndexes ==
    /\ pc' = "generate_config"
    /\ exc' = NoExc
    /\ content' = wiki'
    /\ config' = DefaultConfig
    /\ talkhead' = [archive |-> <<>>, counter |-> <<>>]
    /\ threads' = <<>>
    /\ sections' = <<>>
    /\ archives_touched' = {}
    /\ indexes_in_archives' = indexes_in_archives
    /\ archives_to_touch' = <<>>
    /\ archives_actually_touched' = <<>>
    /\ arch_pages' = <<>>
    /\ arch_thread_count' = 0
    /\ arch_size' = 0
    /\ arched_so_far' = 0
    /\ max_arch_size' = <<0, "B">>
    /\ threads_with_indices' = RedoableIterator(<<>>)
    /\ source_saved' = FALSE
    /\ rolled_back' = FALSE
    /\ last_save' = NoSave

\* Archiver(api, victim) and DiscussionPage.__init__: a fresh object per attempt
FreshArchiver ==
    /\ pc' = "generate_config"
    /\ exc' = NoExc
    /\ content' = wiki'
    /\ config' = DefaultConfig
    /\ talkhead' = [archive |-> <<>>, counter |-> <<>>]
    /\ threads' = <<>>
    /\ sections' = <<>>
    /\ archives_touched' = {}
    /\ indexes_in_archives' = <<>>
    /\ archives_to_touch' = <<>>
    /\ archives_actually_touched' = <<>>
    /\ arch_pages' = <<>>
    /\ arch_thread_count' = 0
    /\ arch_size' = 0
    /\ arched_so_far' = 0
    /\ max_arch_size' = <<0, "B">>
    /\ threads_with_indices' = RedoableIterator(<<>>)
    /\ source_saved' = FALSE
    /\ rolled_back' = FALSE
    /\ last_save' = NoSave

\* no function is being called
NoCall ==
    /\ fn = "none"
    /\ arg = <<>>
    /\ result = Pending

\* no loop is running over a RedoableIterator of its own
NoCursor ==
    /\ cursor = RedoableIterator(<<>>)
    /\ history = <<>>

\* the outer loop has taken the victim from subvictims and made its Archiver
RunInit(pages) ==
    /\ wiki \in pages
    /\ subvictims = ItNext(RedoableIterator(<<Title>>))
    /\ remote_existing = <<>>
    /\ last_save = NoSave
    /\ first_plan = NoPlan
    /\ remote_archives = <<>>
    /\ writes = <<>>
    /\ attempts = 1
    /\ pc = "generate_config"
    /\ exc = NoExc
    /\ content = wiki
    /\ config = DefaultConfig
    /\ talkhead = [archive |-> <<>>, counter |-> <<>>]
    /\ threads = <<>>
    /\ sections = <<>>
    /\ archives_touched = {}
    /\ indexes_in_archives = <<>>
    /\ archives_to_touch = <<>>
    /\ archives_actually_touched = <<>>
    /\ arch_pages = <<>>
    /\ arch_thread_count = 0
    /\ arch_size = 0
    /\ arched_so_far = 0
    /\ max_arch_size = <<0, "B">>
    /\ threads_with_indices = RedoableIterator(<<>>)
    /\ source_saved = FALSE
    /\ rolled_back = FALSE

Init == RunInit(InitialPages) /\ NoCall /\ NoCursor

(***************************************************************************)
(* run(): configuration and thread extraction, the security gate           *)
(***************************************************************************)
IsArchiveError(type) == type \in {"ArchiveError", "ArchiveSecurityError"}

\* run() raises: control passes to the outer loop's except clause
RaiseFrom(type, phase) ==
    /\ pc' = "handler"
    /\ exc' = [type |-> type, phase |-> phase]

\* a coercion that takes the absolute value of a signed number
CoerceCounter_Signed(raw) ==
    IF IntOk(raw) /\ IntVal(raw) # 0
    THEN IF IntVal(raw) < 0 THEN 0 - IntVal(raw) ELSE IntVal(raw)
    ELSE 1

\* abs(int(counter_ if counter_.isdecimal() else 1)) or 1
CoerceCounter(raw) == IF isdecimal(raw) /\ DecVal(raw) # 0 THEN DecVal(raw) ELSE 1

\* int(value or 1): a ValueError when the text is no integer
IntOrOneOk(raw) == raw = <<>> \/ IntOk(raw)

IntOrOne(raw) == IF raw = <<>> THEN 1 ELSE IntVal(raw)

\* Archiver.generate_config
GenerateConfig ==
    /\ pc = "generate_config"
    /\ LET p == content.template
           \* self.config after the loop over template.params, as text
           t == [p EXCEPT !.algo = IF @ = UnsetAlgo THEN config.algo ELSE @,
                          !.maxarchivesize = IF @ = Unset THEN config.maxarchivesize ELSE @,
                          !.counter = IF @ = Unset THEN IntStr(config.counter) ELSE @,
                          !.minthreadstoarchive =
                              IF @ = Unset THEN IntStr(config.minthreadstoarchive) ELSE @,
                          !.minthreadsleft =
                              IF @ = Unset THEN IntStr(config.minthreadsleft) ELSE @]
           arch_string == Strip(ReplaceUnderscore(t.archive))
           c1 == [config EXCEPT !.algo = t.algo, !.archive = arch_string,
                                !.maxarchivesize = t.maxarchivesize,
                                !.key = t.key,
                                !.counter = CoerceCounter(t.counter),
                                !.oldcounter = CoerceCounter(t.counter)]
       IN  /\ talkhead' = [archive |-> p.archive, counter |-> p.counter]
           /\ IF ~t.tpl
              THEN /\ RaiseFrom("ArchiveError", "config")
                   /\ config' = config
              ELSE IF ~IntOrOneOk(t.minthreadstoarchive)
              THEN /\ RaiseFrom("ArchiveError", "config")
                   /\ config' = c1
              ELSE IF ~IntOrOneOk(t.minthreadsleft)
              THEN /\ RaiseFrom("ArchiveError", "config")
                   /\ config' = [c1 EXCEPT !.minthreadstoarchive =
                                              IntOrOne(t.minthreadstoarchive)]
              ELSE /\ pc' = "generate_threads"
                   /\ exc' = exc
                   /\ config' = [c1 EXCEPT !.minthreadstoarchive =
                                              IntOrOne(t.minthreadstoarchive),
                                           !.minthreadsleft = IntOrOne(t.minthreadsleft)]
    /\ UNCHANGED <<remote_vars, planner_vars, outer_vars, subvictims, last_save, remote_existing, content, threads, sections,
                   archives_touched, indexes_in_archives, source_saved, rolled_back>>

\* the dict generate_threads makes for a section, before parse_stamps
ThreadDict(section) ==
    [text |-> section, level |-> section.level, stamp |-> THE_FUTURE, oldenough |-> FALSE]

\* parse_stamps that compares the stamp of every thread, the sentinel too
ParseStamp_ComparesAll(thread, maxage) ==
    LET most_recent == IF thread.level # 2 \/ thread.text.stamps = {} THEN thread.stamp
                       ELSE MaxOf(thread.text.stamps)
    IN  [thread EXCEPT !.stamp = most_recent,
                       !.oldenough = (Now - most_recent > maxage)]

\* parse_stamps on one thread: the latest accepted stamp decides
ParseStamp(thread, maxage) ==
    IF thread.level # 2 \/ thread.text.stamps = {} THEN thread
    ELSE LET most_recent == MaxOf(thread.text.stamps)
         IN  [thread EXCEPT !.stamp = most_recent,
                            !.oldenough = (Now - most_recent > maxage)]

\* DiscussionPage.generate_threads with parse_stamps
GenerateThreads ==
    /\ pc = "generate_threads"
    /\ sections' = content.threads
    /\ LET fresh == [i \in 1..Len(content.threads) |-> ThreadDict(content.threads[i])]
           maxage == str2time(config.algo.arg)
       IN  IF ~AlgoMatches(config.algo)
           THEN /\ RaiseFrom("ArchiveError", "threads")
                /\ threads' = fresh
           ELSE IF ~maxage.ok
           THEN /\ RaiseFrom(maxage.err, "threads")
                /\ threads' = fresh
           ELSE /\ pc' = "gate"
                /\ exc' = exc
                /\ threads' = [i \in 1..Len(fresh) |-> ParseStamp(fresh[i], maxage.val)]
    /\ UNCHANGED <<remote_vars, planner_vars, outer_vars, subvictims, last_save, remote_existing, content, config, talkhead,
                   archives_touched, indexes_in_archives, source_saved, rolled_back>>

\* a key test that accepts every key
key_ok_Always == TRUE

\* Archiver.key_ok
key_ok == config.key = make_key(Title)

\* run(): the keywords test and the key test before archive_threads()
SecurityGate ==
    /\ pc = "gate"
    /\ IF config.archive \in DiscardWords
       THEN /\ pc' = "done"
            /\ exc' = exc
       ELSE IF ~startswith(config.archive, TitleSlash) /\ ~key_ok
       THEN RaiseFrom("ArchiveSecurityError", "gate")
       ELSE /\ pc' = "plan_init"
            /\ exc' = exc
    /\ UNCHANGED <<remote_vars, planner_vars, outer_vars, subvictims, last_save, remote_existing, content, config, talkhead,
                   threads, sections, archives_touched, indexes_in_archives,
                   source_saved, rolled_back>>

(***************************************************************************)
(* archive_threads() up to its first yield: the planner                    *)
(***************************************************************************)
\* sorted(enumerate(threads), key=stamp): stable, so ties stay in page order
Before(i, j) ==
    \/ threads[i].stamp < threads[j].stamp
    \/ threads[i].stamp = threads[j].stamp /\ i < j

RECURSIVE SortIndices(_)
SortIndices(S) ==
    IF S = {} THEN <<>>
    ELSE LET first == CHOOSE i \in S : \A j \in S \ {i} : Before(i, j)
         IN  <<first>> \o SortIndices(S \ {first})

\* the page the cache holds from the start
CoalBall == <<"Coal ball">>

\* first statements of the generator: size limit, sort, cache
PlanInit ==
    /\ pc = "plan_init"
    /\ LET size == str2size(config.maxarchivesize)
       IN  IF ~size.ok
           THEN /\ RaiseFrom(size.err, "plan")
                /\ UNCHANGED planner_vars
           ELSE /\ pc' = "planning"
                /\ exc' = exc
                /\ max_arch_size' = size.val
                /\ arched_so_far' = 0
                /\ archives_to_touch' = <<>>
                /\ arch_pages' = (CoalBall :> TRUE)
                /\ arch_thread_count' = 0
                /\ arch_size' = 0
                /\ threads_with_indices' =
                       RedoableIterator(SortIndices(1..Len(threads)))
                /\ archives_actually_touched' = archives_actually_touched
    /\ UNCHANGED <<remote_vars, outer_vars, subvictims, last_save, remote_existing, content, config, talkhead, threads, sections,
                   archives_touched, indexes_in_archives, source_saved, rolled_back>>

\* what a destination holds when the planner first reads it:
\* a page that does not exist, or one with a thread of two characters
NoPage == [exists |-> FALSE, count |-> 0, size |-> 0]

ExistingPages == {NoPage, [exists |-> TRUE, count |-> 1, size |-> 2]}

\* what a destination held before this program wrote to it: as it was read
\* before, else any of the pages above
FirstRead(subpage) ==
    IF subpage \in DOMAIN remote_existing THEN {remote_existing[subpage]}
    ELSE IF config.counter > MaxExistingCounter THEN {NoPage}
    ELSE ExistingPages

RECURSIVE SumLen(_)
SumLen(texts) == IF texts = <<>> THEN 0 ELSE Head(texts).len + SumLen(Tail(texts))

\* p.content of a destination: what it held plus what this program appended
Held(base, subpage) ==
    LET written == IF subpage \in DOMAIN remote_archives
                   THEN remote_archives[subpage] ELSE <<>>
    IN  [exists |-> base.exists \/ subpage \in DOMAIN remote_archives,
         count |-> base.count + Len(written),
         size |-> base.size + SumLen(written)]

\* make_params() and fmt_str % params for the current counter
Subpage(stamp, counter) ==
    Format(config.archive,
           [counter |-> counter, year |-> YearOf(stamp), month |-> MonthOf(stamp)])

\* the floor test with "<" for "<=": one thread too many leaves the page
KeepFloorReached_Strict == Len(threads) - arched_so_far < config.minthreadsleft

\* the loop's first test: enough threads must stay on the page
KeepFloorReached == Len(threads) - arched_so_far <= config.minthreadsleft

\* the capacity test without the exception for an empty destination
IsFull_NoEmptyException(thread, count, size) ==
    IF max_arch_size[2] = "T"
    THEN count + 1 > max_arch_size[1]
    ELSE thread.text.len + size > max_arch_size[1]

\* the capacity test with the thread limit compared before the thread is counted
IsFull_OffByOne(thread, count, size) ==
    IF max_arch_size[2] = "T"
    THEN count > max_arch_size[1]
    ELSE thread.text.len + size > max_arch_size[1] /\ size # 0

\* the capacity test of lines 424-452 for a thread against the running totals
IsFull(thread, count, size) ==
    IF max_arch_size[2] = "T"
    THEN count + 1 > max_arch_size[1]
    ELSE thread.text.len + size > max_arch_size[1] /\ size # 0

\* position of a title in the ordered dict, 0 when absent
TitleIndex(entries, title) ==
    IF \E i \in 1..Len(entries) : entries[i].title = title
    THEN CHOOSE i \in 1..Len(entries) : entries[i].title = title
    ELSE 0

\* archives_to_touch[subpage] += text (a new key goes last)
AppendTo(entries, title, text) ==
    LET k == TitleIndex(entries, title)
    IN  IF k = 0 THEN Append(entries, [title |-> title, content |-> <<text>>])
        ELSE [entries EXCEPT ![k].content = Append(@, text)]

\* self.indexes_in_archives[subpage].append(index)
RecordIndex(map, title, index) ==
    IF title \in DOMAIN map THEN [map EXCEPT ![title] = Append(@, index)]
    ELSE map @@ (title :> <<index>>)

\* the for loop is exhausted: control reaches line 465
PlanExhausted ==
    /\ pc = "planning"
    /\ ~ItHasNext(threads_with_indices)
    /\ pc' = "plan_finish"
    /\ UNCHANGED <<remote_vars, planner_vars, outer_vars, subvictims, last_save, remote_existing, exc, content, config, talkhead,
                   threads, sections, archives_touched, indexes_in_archives,
                   source_saved, rolled_back>>

\* an iteration that ends in "break" at line 406
PlanKeepBreak ==
    /\ pc = "planning"
    /\ ItHasNext(threads_with_indices)
    /\ KeepFloorReached
    /\ threads_with_indices' = ItNext(threads_with_indices)
    /\ pc' = "plan_finish"
    /\ UNCHANGED <<remote_vars, outer_vars, subvictims, last_save, remote_existing, exc, content, config, talkhead, threads,
                   sections, archives_touched, indexes_in_archives, archives_to_touch,
                   archives_actually_touched, arch_pages, arch_thread_count, arch_size,
                   arched_so_far, max_arch_size, source_saved, rolled_back>>

\* an iteration that ends in "continue" at line 408
PlanSkipYoung ==
    /\ pc = "planning"
    /\ ItHasNext(threads_with_indices)
    /\ ~KeepFloorReached
    /\ LET it == ItNext(threads_with_indices)
       IN  /\ ~threads[it.val].oldenough
           /\ threads_with_indices' = it
    /\ UNCHANGED <<remote_vars, outer_vars, subvictims, last_save, remote_existing, pc, exc, content, config, talkhead, threads,
                   sections, archives_touched, indexes_in_archives, archives_to_touch,
                   archives_actually_touched, arch_pages, arch_thread_count, arch_size,
                   arched_so_far, max_arch_size, source_saved, rolled_back>>

\* an iteration on a stale thread, lines 409-464: the destination is looked
\* up (and read on first reference), then the thread is accepted or the
\* counter is bumped
PlanStale ==
    /\ pc = "planning"
    /\ ItHasNext(threads_with_indices)
    /\ ~KeepFloorReached
    /\ LET it == ItNext(threads_with_indices)
           index == it.val
           thread == threads[index]
           subpage == Subpage(thread.stamp, config.counter)
       IN  /\ thread.oldenough
           /\ \E base \in FirstRead(subpage) :
              LET seen == IF subpage \in DOMAIN arch_pages
                          THEN [exists |-> arch_pages[subpage],
                                count |-> arch_thread_count, size |-> arch_size]
                          ELSE Held(base, subpage)
              IN
                /\ arch_pages' = IF subpage \in DOMAIN arch_pages THEN arch_pages
                                 ELSE arch_pages @@ (subpage :> seen.exists)
                /\ remote_existing' =
                       IF subpage \in DOMAIN remote_existing THEN remote_existing
                       ELSE remote_existing @@ (subpage :> base)
                /\ IF IsFull(thread, seen.count, seen.size)
                   THEN /\ config' = [config EXCEPT !.counter = @ + 1]
                        /\ arch_thread_count' = seen.count
                        /\ arch_size' = seen.size
                        /\ IF Subpage(thread.stamp, config.counter + 1) = subpage
                           THEN /\ pc' = "plan_finish"
                                /\ threads_with_indices' = it
                           ELSE /\ pc' = pc
                                /\ threads_with_indices' = ItRedo(it)
                        /\ UNCHANGED <<arched_so_far, archives_to_touch,
                                       indexes_in_archives, sections>>
                   ELSE /\ arch_size' = seen.size + sections[index].len
                        /\ arched_so_far' = arched_so_far + 1
                        /\ arch_thread_count' = seen.count + 1
                        /\ archives_to_touch' =
                               AppendTo(archives_to_touch, subpage, sections[index])
                        /\ indexes_in_archives' =
                               RecordIndex(indexes_in_archives, subpage, index)
                        /\ sections' = [sections EXCEPT ![index] = Empty]
                        /\ threads_with_indices' = it
                        /\ UNCHANGED <<pc, config>>
    /\ UNCHANGED <<remote_vars, outer_vars, subvictims, last_save, exc, content, talkhead, threads,
                   archives_touched, archives_actually_touched, max_arch_size,
                   source_saved, rolled_back>>

\* the size test of the plan off by one: a plan one thread short of
\* minthreadstoarchive is kept
TooFewToBother_Lenient == arched_so_far + 1 < config.minthreadstoarchive

\* line 467: not worth an edit
TooFewToBother == arched_so_far < config.minthreadstoarchive

\* lines 465-475: the plan is published, or dropped when it is too small
PlanFinish ==
    /\ pc = "plan_finish"
    /\ archives_actually_touched' = <<>>
    /\ IF TooFewToBother
       THEN /\ archives_touched' = {}
            /\ pc' = "done"
       ELSE /\ archives_touched' = {archives_to_touch[i].title :
                                       i \in 1..Len(archives_to_touch)}
            /\ pc' = "update"
    /\ UNCHANGED <<remote_vars, outer_vars, subvictims, last_save, remote_existing, exc, content, config, talkhead, threads,
                   sections, indexes_in_archives, archives_to_touch, arch_pages,
                   arch_thread_count, arch_size, arched_so_far, max_arch_size,
                   threads_with_indices, source_saved, rolled_back>>

(***************************************************************************)
(* Remote saves: Page.edit / Page.append / Page.create and the handlers    *)
(* wrapped around them (lines 286-305 and 481-507)                         *)
(***************************************************************************)
\* exception classes a remote call can raise, as the outer loop tells them apart
RemoteErrors == {"ApiError", "Other"}

\* what the wiki answers to one request: the save is made, SpamFilterError
\* with code 'spamblacklist' or with another code, an exception whose text
\* names JSON (the save lost, or made all the same), ApiError, or another
\* exception
Responses ==
    {"ok", "spamblacklist", "spamother", "json_lost", "json_made", "ApiError", "Other"}

\* what the wiki answers to the request repeated by the spamblacklist
\* handler: the save is made, or it is rejected again (an exception of
\* another kind leaves the handler the same way)
SecondResponses == {"ok", "spamblacklist"}

\* the class of the exception a response stands for, as the outer loop tells
\* classes apart; SpamFilterError comes from ceterach, either way
ClassesOf(response) ==
    IF response \in RemoteErrors THEN {response} ELSE RemoteErrors

\* a try statement whose SpamFilterError handler repeats nothing
GuardedSave_NoRetry(r1, r2) ==
    IF r1 \in {"ok", "json_made"}
    THEN {[responses |-> <<r1>>, tries |-> 1, applied |-> TRUE, cached |-> r1 = "ok",
           raises |-> "none"]}
    ELSE IF r1 \in {"spamblacklist", "spamother", "json_lost"}
    THEN {[responses |-> <<r1>>, tries |-> 1, applied |-> FALSE, cached |-> FALSE,
           raises |-> "none"]}
    ELSE {[responses |-> <<r1>>, tries |-> 1, applied |-> FALSE, cached |-> FALSE,
           raises |-> r1]}

\* the try statement around a save (lines 286-305, 481-507) for a first
\* answer r1 and, when the handler repeats the request, a second answer r2.
\* tries: requests sent; applied: the wiki took the text; cached: the Page
\* object saw the save succeed (its content is the saved text from then on);
\* raises: the exception that leaves the statement ("none": the statement
\* after it runs)
GuardedSave(r1, r2) ==
    IF r1 = "ok"
    THEN {[responses |-> <<r1>>, tries |-> 1, applied |-> TRUE, cached |-> TRUE,
           raises |-> "none"]}
    ELSE IF r1 = "spamblacklist"
    THEN IF r2 = "ok"
         THEN {[responses |-> <<r1, r2>>, tries |-> 2, applied |-> TRUE,
                cached |-> TRUE, raises |-> "none"]}
         ELSE {[responses |-> <<r1, r2>>, tries |-> 2, applied |-> FALSE,
                cached |-> FALSE, raises |-> e] : e \in ClassesOf(r2)}
    ELSE IF r1 \in {"spamother", "json_lost"}
    THEN {[responses |-> <<r1>>, tries |-> 1, applied |-> FALSE, cached |-> FALSE,
           raises |-> "none"]}
    ELSE IF r1 = "json_made"
    THEN {[responses |-> <<r1>>, tries |-> 1, applied |-> TRUE, cached |-> FALSE,
           raises |-> "none"]}
    ELSE {[responses |-> <<r1>>, tries |-> 1, applied |-> FALSE, cached |-> FALSE,
           raises |-> r1]}

\* how one guarded save can end
SaveOutcomes == UNION {GuardedSave(r1, r2) : r1 \in Responses, r2 \in SecondResponses}

LogWrite(op, title, o) ==
    Append(writes, [op |-> op, title |-> title, applied |-> o.applied])

\* rebuild_talkhead(): the parameters the template has take the values of
\* self.config
TalkheadWith(counter) ==
    [archive |-> config.archive,
     counter |-> IF talkhead.counter = Unset THEN Unset ELSE IntStr(counter)]

RebuiltTalkhead == TalkheadWith(config.counter)

\* "".join(map(str, sections)): removed threads leave nothing behind
LiveSections(secs) == SelectSeq(secs, LAMBDA x : x # Empty)

\* str(self.talkhead) + "".join(...) as a page
PageText(head, secs) ==
    [template |-> [content.template EXCEPT !.archive = head.archive,
                                           !.counter = head.counter],
     threads |-> LiveSections(secs)]

(***************************************************************************)
(* DiscussionPage.update(archives_touched), called from run()              *)
(***************************************************************************)
\* update() that returns whenever the text is the fetched one
UpdateBranch_SilentWhenUnchanged(text, fetched, touched, in_flight) ==
    IF text # fetched
    THEN IF touched = {} /\ ~in_flight THEN "Nothing moved to archives" ELSE "save"
    ELSE "return"

\* the way update() takes at lines 282-310 for the rebuilt text, the fetched
\* content, the destinations passed in and an exception in flight or none:
\* the save, the plain return, or the message of the ArchiveError it raises
UpdateBranch(text, fetched, touched, in_flight) ==
    IF text # fetched
    THEN IF touched = {} /\ ~in_flight THEN "Nothing moved to archives" ELSE "save"
    ELSE IF touched = {} THEN "return"
    ELSE "Nothing happened"

UpdateSource ==
    /\ pc = "update"
    /\ talkhead' = RebuiltTalkhead
    /\ LET text == PageText(RebuiltTalkhead, sections)
           branch == UpdateBranch(text, content, archives_touched, FALSE)
       IN  IF branch = "save"
           THEN \E o \in SaveOutcomes :
                   /\ writes' = LogWrite("edit", <<Title>>, o)
                   /\ last_save' = o
                   /\ wiki' = IF o.applied THEN text ELSE wiki
                   /\ content' = IF o.cached THEN text ELSE content
                   /\ source_saved' = o.applied
                   /\ remote_archives' = remote_archives
                   /\ IF o.raises = "none"
                      THEN pc' = "archiving" /\ exc' = exc
                      ELSE RaiseFrom(o.raises, "update")
           ELSE /\ UNCHANGED <<remote_vars, content, source_saved, last_save>>
                /\ IF branch = "return"
                   THEN pc' = "archiving" /\ exc' = exc
                   ELSE RaiseFrom("ArchiveError", "update")
    /\ UNCHANGED <<planner_vars, outer_vars, subvictims, remote_existing, config, threads, sections, archives_touched,
                   indexes_in_archives, rolled_back>>

(***************************************************************************)
(* archive_threads() after the first yield: one destination per step       *)
(***************************************************************************)
\* page.append on an existing page, page.create otherwise
ArchiveWrite ==
    /\ pc = "archiving"
    /\ Len(archives_actually_touched) < Len(archives_to_touch)
    /\ LET entry == archives_to_touch[Len(archives_actually_touched) + 1]
           title == entry.title
           op == IF arch_pages[title] THEN "append" ELSE "create"
           old == IF title \in DOMAIN remote_archives THEN remote_archives[title] ELSE <<>>
       IN  \E o \in SaveOutcomes :
              /\ writes' = LogWrite(op, title, o)
              /\ last_save' = o
              /\ remote_archives' =
                     IF ~o.applied THEN remote_archives
                     ELSE IF title \in DOMAIN remote_archives
                     THEN [remote_archives EXCEPT ![title] = old \o entry.content]
                     ELSE remote_archives @@ (title :> entry.content)
              /\ IF o.raises = "none"
                 THEN /\ archives_actually_touched' = Append(archives_actually_touched, title)
                      /\ archives_touched' = Range(archives_actually_touched')
                      /\ UNCHANGED <<pc, exc>>
                 ELSE /\ RaiseFrom(o.raises, "archive")
                      /\ UNCHANGED <<archives_actually_touched, archives_touched>>
    /\ UNCHANGED <<wiki, outer_vars, subvictims, remote_existing, content, config, talkhead, threads, sections,
                   indexes_in_archives, archives_to_touch, arch_pages, arch_thread_count,
                   arch_size, arched_so_far, max_arch_size, threads_with_indices,
                   source_saved, rolled_back>>

\* the second yield: run() returns
ArchiveDone ==
    /\ pc = "archiving"
    /\ Len(archives_actually_touched) = Len(archives_to_touch)
    /\ pc' = "done"
    /\ UNCHANGED <<remote_vars, planner_vars, outer_vars, subvictims, last_save, remote_existing, exc, content, config, talkhead,
                   threads, sections, archives_touched, indexes_in_archives,
                   source_saved, rolled_back>>

(***************************************************************************)
(* The outer loop's except clause (lines 732-746)                          *)
(***************************************************************************)
\* isinstance(e, ArchiveError): continue with the next page
HandlerSkip ==
    /\ pc = "handler"
    /\ IsArchiveError(exc.type)
    /\ pc' = "done"
    /\ UNCHANGED <<remote_vars, planner_vars, outer_vars, subvictims, last_save, remote_existing, exc, content, config, talkhead,
                   threads, sections, archives_touched, indexes_in_archives,
                   source_saved, rolled_back>>

\* isinstance(e, exc.ApiError): sleep, subvictims.redo(), continue
HandlerRedo ==
    /\ pc = "handler"
    /\ exc.type = "ApiError"
    /\ pc' = "redo"
    /\ subvictims' = ItRedo(subvictims)
    /\ UNCHANGED <<remote_vars, planner_vars, outer_vars, last_save, remote_existing, exc, content, config, talkhead,
                   threads, sections, archives_touched, indexes_in_archives,
                   source_saved, rolled_back>>

\* the destinations unarchive_threads() restores
UntouchedArchives ==
    IF DOMAIN indexes_in_archives \ archives_touched = {}
    THEN archives_touched
    ELSE DOMAIN indexes_in_archives \ archives_touched

\* self.indexes_in_archives[title] of the defaultdict
IndexesOf(title) ==
    IF title \in DOMAIN indexes_in_archives THEN indexes_in_archives[title] ELSE <<>>

\* the sections after the restoring loop of lines 523-529
RestoredSections ==
    [i \in 1..Len(sections) |->
        IF \E u \in UntouchedArchives : i \in Range(IndexesOf(u))
        THEN threads[i].text
        ELSE sections[i]]

\* a reconciliation that takes one off the counter for every destination
\* it restores
RestoredCounter_PerUntouched == config.counter - Cardinality(UntouchedArchives)

\* the counter after lines 522-539
RestoredCounter ==
    LET total_counter_increments ==
            config.counter - config.oldcounter - Cardinality(UntouchedArchives)
    IN  IF 0 < total_counter_increments
        THEN config.counter - total_counter_increments
        ELSE config.counter

\* any other exception: bot.unarchive_threads(), whose own failure is only logged.
\* update() runs with the exception in flight: it saves whenever the rebuilt
\* text differs from the fetched one
Rollback ==
    /\ pc = "handler"
    /\ ~IsArchiveError(exc.type)
    /\ exc.type # "ApiError"
    /\ sections' = RestoredSections
    /\ config' = [config EXCEPT !.counter = RestoredCounter]
    /\ rolled_back' = TRUE
    /\ pc' = "done"
    /\ LET head == TalkheadWith(RestoredCounter)
           text == PageText(head, RestoredSections)
       IN  /\ talkhead' = head
           /\ IF text # content
              THEN \E o \in SaveOutcomes :
                      /\ writes' = LogWrite("edit", <<Title>>, o)
                      /\ last_save' = o
                      /\ wiki' = IF o.applied THEN text ELSE wiki
                      /\ content' = IF o.cached THEN text ELSE content
              ELSE UNCHANGED <<wiki, writes, content, last_save>>
    /\ UNCHANGED <<remote_archives, planner_vars, outer_vars, subvictims, remote_existing, exc, threads,
                   archives_touched, indexes_in_archives, source_saved>>

\* the redone victim: a new Archiver on the page as the wiki now has it
Retry ==
    /\ pc = "redo"
    /\ ItHasNext(subvictims)
    /\ ItNext(subvictims).val = Title
    /\ attempts < MaxAttempts
    /\ subvictims' = ItNext(subvictims)
    /\ attempts' = attempts + 1
    /\ first_plan' = [made |-> TRUE, to_touch |-> archives_to_touch,
                      indexes |-> indexes_in_archives, counter |-> config.counter]
    /\ UNCHANGED <<remote_vars, remote_existing, call_vars, cursor_vars>>
    /\ FreshArchiver

Next ==
    \/ GenerateConfig
    \/ GenerateThreads
    \/ SecurityGate
    \/ PlanInit
    \/ PlanExhausted
    \/ PlanKeepBreak
    \/ PlanSkipYoung
    \/ PlanStale
    \/ PlanFinish
    \/ UpdateSource
    \/ ArchiveWrite
    \/ ArchiveDone
    \/ HandlerSkip
    \/ HandlerRedo
    \/ Rollback

(***************************************************************************)
(* A loop of its own over a RedoableIterator (lines 91-114)                *)
(***************************************************************************)
\* the outer loop at rest on a page without threads
Idle == RunInit({[template |-> BaseTemplate, threads |-> <<>>]})

Returned(v) == [op |-> "next", kind |-> "value", val |-> v]

Raised(e) == [op |-> "next", kind |-> e, val |-> 0]

CursorInit ==
    /\ Idle
    /\ NoCall
    /\ cursor \in {RedoableIterator([i \in 1..n |-> i]) : n \in 0..MaxCursorLen}
    /\ history = <<>>

\* next(it): a replay, the next element of the data, or StopIteration; a
\* replay asked for before anything was returned finds no _val
CursorAdvance ==
    /\ Len(history) < MaxCursorOps
    /\ IF cursor.redo /\ cursor.val = 0
       THEN /\ cursor' = [cursor EXCEPT !.redo = FALSE]
            /\ history' = Append(history, Raised("AttributeError"))
       ELSE IF ItHasNext(cursor)
       THEN /\ cursor' = ItNext(cursor)
            /\ history' = Append(history, Returned(cursor'.val))
       ELSE /\ cursor' = cursor
            /\ history' = Append(history, Raised("StopIteration"))
    /\ UNCHANGED <<run_vars, call_vars>>

\* it.redo()
CursorRedo ==
    /\ Len(history) < MaxCursorOps
    /\ cursor' = ItRedo(cursor)
    /\ history' = Append(history, [op |-> "redo", kind |-> "none", val |-> 0])
    /\ UNCHANGED <<run_vars, call_vars>>

CursorNext == CursorAdvance \/ CursorRedo

CursorSpec == CursorInit /\ [][CursorNext]_vars

(***************************************************************************)
(* Calls of str2time and str2size on their own (lines 123-166)             *)
(***************************************************************************)
\* the characters of the texts passed in: digits, unit letters in either
\* case, a letter that is no unit, and a sign
ArgChars == {"0", "1", "2", "b", "K", "m", "T", "d", "H", "x", "-"}

ArgTexts == SeqsUpTo(ArgChars, MaxArgLen)

CallInit ==
    /\ Idle
    /\ NoCursor
    /\ fn \in {"str2time", "str2size"}
    /\ arg \in ArgTexts
    /\ result = Pending

\* str2time(arg)
CallStr2time ==
    /\ fn = "str2time"
    /\ result = Pending
    /\ result' = str2time(arg)
    /\ UNCHANGED <<run_vars, cursor_vars, fn, arg>>

\* str2size(arg)
CallStr2size ==
    /\ fn = "str2size"
    /\ result = Pending
    /\ result' = str2size(arg)
    /\ UNCHANGED <<run_vars, cursor_vars, fn, arg>>

CallNext == CallStr2time \/ CallStr2size

CallSpec == CallInit /\ [][CallNext]_vars

(***************************************************************************)
(* A call of DiscussionPage.update(archives_touched) on its own            *)
(* (lines 261-310)                                                         *)
(***************************************************************************)
\* the pages update() is called on
UpdatePages ==
    {[template |-> BaseTemplate, threads |-> p] :
        p \in {<<OldThread>>, <<OldThread, LongThread>>,
               <<OldThread, UnsignedThread, NewThread>>}}

\* the sections of a page of which those of the indices in C are removed
WithRemoved(page, C) ==
    [i \in 1..Len(page.threads) |-> IF i \in C THEN Empty ELSE page.threads[i]]

\* a DiscussionPage whose threads were extracted, any of its sections
\* removed, the counter as configured or one above, and a caller about to
\* pass no destination or one destination to update()
UpdateInit ==
    /\ NoCursor
    /\ fn = "update"
    /\ arg = <<>>
    /\ result = Pending
    /\ wiki \in UpdatePages
    /\ content = wiki
    /\ config \in {[DefaultConfig EXCEPT !.archive = PatCounter, !.counter = c] : c \in {1, 2}}
    /\ talkhead = [archive |-> wiki.template.archive, counter |-> wiki.template.counter]
    /\ threads = [i \in 1..Len(wiki.threads) |->
                     ParseStamp(ThreadDict(wiki.threads[i]), SecondsPerDay)]
    /\ sections \in {WithRemoved(wiki, C) : C \in SUBSET (1..Len(wiki.threads))}
    /\ archives_touched \in {{}, {Format(PatCounter, [counter |-> 1, year |-> 1970, month |-> 1])}}
    /\ pc = "update"
    /\ exc = NoExc
    /\ subvictims = ItNext(RedoableIterator(<<Title>>))
    /\ remote_existing = <<>>
    /\ last_save = NoSave
    /\ first_plan = NoPlan
    /\ remote_archives = <<>>
    /\ writes = <<>>
    /\ attempts = 1
    /\ indexes_in_archives = <<>>
    /\ archives_to_touch = <<>>
    /\ archives_actually_touched = <<>>
    /\ arch_pages = <<>>
    /\ arch_thread_count = 0
    /\ arch_size = 0
    /\ arched_so_far = 0
    /\ max_arch_size = <<0, "B">>
    /\ threads_with_indices = RedoableIterator(<<>>)
    /\ source_saved = FALSE
    /\ rolled_back = FALSE

\* self.page.update(archives_touched) with no exception in flight: what it
\* returns or raises, and the save it sends
CallUpdate ==
    /\ fn = "update"
    /\ result = Pending
    /\ talkhead' = RebuiltTalkhead
    /\ LET text == PageText(RebuiltTalkhead, sections)
           branch == UpdateBranch(text, content, archives_touched, FALSE)
       IN  IF branch = "save"
           THEN \E o \in SaveOutcomes :
                   /\ writes' = LogWrite("edit", <<Title>>, o)
                   /\ last_save' = o
                   /\ wiki' = IF o.applied THEN text ELSE wiki
                   /\ content' = IF o.cached THEN text ELSE content
                   /\ source_saved' = o.applied
                   /\ result' = IF o.raises = "none" THEN Ok("None") ELSE Raise(o.raises)
           ELSE /\ UNCHANGED <<wiki, writes, content, source_saved, last_save>>
                /\ result' = IF branch = "return" THEN Ok("None") ELSE Raise(branch)
    /\ UNCHANGED <<remote_archives, planner_vars, attempts, first_plan, cursor_vars, fn, arg,
                   subvictims, remote_existing, pc, exc, config, threads, sections,
                   archives_touched, indexes_in_archives, rolled_back>>

UpdateNext == CallUpdate

UpdateSpec == UpdateInit /\ [][UpdateNext]_vars

\* one attempt on one page: the redone victim is left to OuterSpec
Spec == Init /\ [][Next]_vars

\* the outer loop with its redo, on the few pages
OuterInit == Init /\ wiki.threads \in FewPages

OuterNext == Next \/ Retry

OuterSpec == OuterInit /\ [][OuterNext]_vars

\* one attempt on one of the short pages, the program never halting of its
\* own between two statements
FairInit == Init /\ wiki.threads \in FewPages \cup ReturningPages

FairSpec == FairInit /\ [][Next]_vars /\ WF_vars(Next)

(***************************************************************************)
(* Vocabulary of the properties                                            *)
(***************************************************************************)
\* the destination a thread index is recorded under ({} when it is recorded nowhere)
DestinationsOf(i) ==
    {t \in DOMAIN indexes_in_archives : i \in Range(indexes_in_archives[t])}

\* the destinations whose append or create took effect on the wiki
WrittenArchives == DOMAIN remote_archives

\* a destination write raised after the source page had been saved, and the
\* outer loop has dealt with the exception
FailedAfterSourceSave ==
    /\ pc \in {"done", "redo"}
    /\ exc.phase = "archive"
    /\ source_saved

LiveCount == Cardinality({i \in 1..Len(sections) : sections[i] # Empty})

PlannerFinished == pc \in {"update", "archiving", "done"} /\ exc = NoExc /\ arch_pages # <<>>

(***************************************************************************)
(* Rollback                                                                *)
(***************************************************************************)
\* C1: after unarchive_threads() has run for a destination failure that
\* followed a successful source save, a thread's slot is empty exactly when
\* its destination was written: threads of unwritten destinations are back
\* in their slots, threads of written destinations stay removed.
C1_RollbackThreadSet ==
    (FailedAfterSourceSave /\ rolled_back) =>
        \A i \in 1..Len(sections) :
            (sections[i] = Empty) <=> (DestinationsOf(i) \cap WrittenArchives # {})

\* C2: after the rollback the counter is oldcounter plus the number of
\* distinct destinations that were written.
C2_RollbackCounter ==
    (FailedAfterSourceSave /\ rolled_back) =>
        config.counter = config.oldcounter + Cardinality(WrittenArchives)

\* C3: once the source page save has succeeded, an error raised while
\* writing destinations, whatever its kind, has unarchive_threads() run
\* before the outer loop skips, retries or moves on.
C3_RollbackAlwaysRuns == FailedAfterSourceSave => rolled_back

(***************************************************************************)
(* Commit ordering                                                         *)
(***************************************************************************)
\* C4: no destination append or create is issued before the source page save
\* of the run has completed successfully; when the source save fails, no
\* destination is written.
C4_SourceBeforeArchives ==
    \A k \in 1..Len(writes) :
        writes[k].op \in {"append", "create"} =>
            \E j \in 1..(k - 1) : writes[j].op = "edit" /\ writes[j].applied

(***************************************************************************)
(* The planner's floors                                                    *)
(***************************************************************************)
\* C5: the planner never takes the page below minthreadsleft live threads;
\* a page that starts at or below the floor loses nothing.
C5_KeepsMinThreads ==
    Len(sections) = Len(threads) =>
        IF Len(threads) <= config.minthreadsleft
        THEN LiveCount = Len(threads)
        ELSE LiveCount >= config.minthreadsleft

\* witness of C5: the floor of two stopped the planner after one thread
\* while another stale thread was still on the page
C5_Witness ==
    /\ pc = "plan_finish"
    /\ config.minthreadsleft = 2
    /\ arched_so_far = 1
    /\ LiveCount = 2
    /\ \E i \in 1..Len(threads) : threads[i].oldenough /\ sections[i] # Empty

\* C6: when the planner accepted fewer threads than minthreadstoarchive, the
\* plan is dropped (archives_touched is empty) and the run ends with no
\* remote write: the source page on the wiki is what was fetched, and no
\* destination is written.
C6_SmallPlanDropped ==
    (PlannerFinished /\ arched_so_far < config.minthreadstoarchive) =>
        /\ pc = "done"
        /\ archives_touched = {}
        /\ writes = <<>>
        /\ wiki = content
        /\ remote_archives = <<>>

\* witness of C6: one thread was accepted where two are needed
C6_Witness ==
    /\ PlannerFinished
    /\ pc = "done"
    /\ arched_so_far = 1
    /\ config.minthreadstoarchive = 2
    /\ archives_to_touch # <<>>
    /\ LiveCount < Len(threads)

(***************************************************************************)
(* Errors before the source page save                                      *)
(***************************************************************************)
\* C7: an error raised before the source page save has begun (missing
\* template, malformed algorithm, size or duration, bad key) leaves the wiki
\* untouched: no remote write is issued for the page, the outer loop's error
\* handling included.
C7_EarlyErrorWritesNothing ==
    exc.phase \in {"config", "threads", "gate", "plan"} => writes = <<>>

\* the destination pattern, as configured, is outside the page's own subpages
ForeignArchive == ~startswith(config.archive, TitleSlash)

\* the configured key is not the keyed hash of the title
WrongKey == config.key # <<"md5", "salt", Title>>

NoSlotCleared == \A i \in 1..Len(sections) : sections[i] # Empty

GatePassed == pc \notin {"generate_config", "generate_threads", "gate"}

ExtractionSucceeded == GatePassed /\ exc.phase \notin {"config", "threads"}

LowerWord(w) ==
    CASE w = "NONE" -> "none" [] w = "None" -> "none"
      [] w = "Nowhere" -> "nowhere" [] OTHER -> w

\* "/dev/null", "none" or "nowhere" in any letter case
IsDiscard(p) == Len(p) = 1 /\ LowerWord(p[1]) \in {"/dev/null", "none", "nowhere"}

\* some stale thread may leave the page under the configured floors
SomethingToArchive ==
    /\ \E i \in 1..Len(threads) : threads[i].oldenough
    /\ Len(threads) > config.minthreadsleft
    /\ config.minthreadstoarchive <= 1

\* C9: with a discard keyword as destination (any letter case) the run
\* writes no destination page, yet the stale threads leave the source page:
\* it is saved without them.
C9_DiscardRemovesThreads ==
    (pc = "done" /\ GatePassed /\ IsDiscard(config.archive) /\ SomethingToArchive) =>
        /\ remote_archives = <<>>
        /\ \E k \in 1..Len(writes) : writes[k].op = "edit" /\ writes[k].applied
        /\ Len(wiki.threads) < Len(threads)

(***************************************************************************)
(* A full destination under a pattern without the counter                  *)
(***************************************************************************)
DependsOnCounter(p) == \E i \in 1..Len(p) : p[i] = "%(counter)d"

StaleIndices == {i \in 1..Len(threads) : threads[i].oldenough}

\* the destinations the stale threads map to under the counter at the start
StaleDestinations == {Subpage(threads[i].stamp, config.oldcounter) : i \in StaleIndices}

PlanningOver == pc \in {"plan_finish", "update", "archiving", "done"} /\ arch_pages # <<>>

\* at least five stale threads, all bound for one destination that held
\* nothing when it was read, a limit of two threads, a pattern without the
\* counter, and a floor that does not bind
FullFixedDestination ==
    /\ ~DependsOnCounter(config.archive)
    /\ max_arch_size = <<2, "T">>
    /\ Cardinality(StaleIndices) >= 5
    /\ Cardinality(StaleDestinations) = 1
    /\ \A d \in StaleDestinations : d \in DOMAIN arch_pages /\ ~arch_pages[d]
    /\ Len(threads) - 2 > config.minthreadsleft

\* C10: when the pattern does not depend on the counter and the destination
\* is full, the bump leaves the name unchanged and planning stops: with a
\* limit of "2T", five stale threads and an empty destination, planning ends
\* with exactly two threads accepted, after a single bump of the counter.
C10_StopsWhenBumpChangesNothing ==
    (PlanningOver /\ FullFixedDestination) =>
        /\ arched_so_far = 2
        /\ config.counter = config.oldcounter + 1
        /\ Len(archives_to_touch) = 1

\* witness of C10: planning is over with two of the five stale threads taken
C10_Witness ==
    /\ pc = "plan_finish"
    /\ FullFixedDestination
    /\ Cardinality(StaleIndices) = 5
    /\ arched_so_far = 2
    /\ LiveCount = 3

(***************************************************************************)
(* The scenario of six threads and a floor of five                         *)
(***************************************************************************)
\* the template names the floor of five and leaves the other policy
\* parameters out; the page has six threads, three of them stale
SixThreadScenario ==
    /\ GatePassed
    /\ content.template.algo = UnsetAlgo
    /\ content.template.maxarchivesize = Unset
    /\ content.template.minthreadstoarchive = Unset
    /\ content.template.counter = Unset
    /\ content.template.minthreadsleft = <<"5">>
    /\ Len(threads) = 6
    /\ Cardinality(StaleIndices) = 3

\* C11 as stated: the run archives exactly one thread to a single
\* destination; afterwards the source page has five threads and the
\* destination holds one.
C11_AsStated ==
    (pc = "done" /\ SixThreadScenario) =>
        /\ Len(wiki.threads) = 5
        /\ Cardinality(DOMAIN remote_archives) = 1
        /\ \A d \in DOMAIN remote_archives : Len(remote_archives[d]) = 1

\* C11: in the scenario the planner accepts exactly one thread, for a single
\* destination, and stops at the floor of five; one being fewer than the
\* default minthreadstoarchive of two, the plan is dropped: nothing is
\* written, the source page keeps its six threads and no destination is
\* written.
C11_DefaultsDropThePlan ==
    (pc = "done" /\ SixThreadScenario) =>
        /\ arched_so_far = 1
        /\ Len(archives_to_touch) = 1
        /\ Len(archives_to_touch[1].content) = 1
        /\ archives_touched = {}
        /\ writes = <<>>
        /\ Len(wiki.threads) = 6
        /\ remote_archives = <<>>

\* witness of C11: the scenario's run is over, the planner having cleared
\* the slot of the oldest stale thread only
C11_Witness ==
    /\ pc = "done"
    /\ SixThreadScenario
    /\ exc = NoExc
    /\ LiveCount = 5
    /\ config.minthreadstoarchive = 2

(***************************************************************************)
(* The planner run again on the same input                                 *)
(***************************************************************************)
\* nothing this program sent has changed the wiki
NothingApplied == \A k \in 1..Len(writes) : ~writes[k].applied

\* the planner of the redone attempt has run to its end
ReplannedOnSameInput ==
    /\ first_plan.made
    /\ pc \in {"plan_finish", "update"}
    /\ NothingApplied

RedosBetween(i, j) ==
    /\ i + 1 < j
    /\ \A m \in (i + 1)..(j - 1) : history[m].op = "redo"

\* the advances that no redo precedes
FreshAdvances ==
    {i \in 1..Len(history) :
        history[i].op = "next" /\ (i = 1 \/ history[i - 1].op = "next")}

\* the length of the sequence the cursor runs over
UnderlyingLen == cursor.val + Len(cursor.data)

\* what the advance after the delivery of x returns when nothing is replayed
Following(x) ==
    IF x < UnderlyingLen THEN Returned(x + 1) ELSE Raised("StopIteration")

\* C13: after an advance has returned x, one or more redo requests in a row
\* make the next advance return x, once: the advance after it returns the
\* element that follows x, or signals exhaustion.  The advances that are not
\* replays return the elements of the sequence in order, none skipped and
\* none twice.
C13_ReplayOnce ==
    /\ \A i, j \in 1..Len(history) :
          (/\ history[i].op = "next" /\ history[i].kind = "value"
           /\ RedosBetween(i, j)
           /\ history[j].op = "next")
          => /\ history[j] = history[i]
             /\ (j < Len(history) /\ history[j + 1].op = "next")
                    => history[j + 1] = Following(history[i].val)
    /\ \A i \in FreshAdvances :
          LET before == Cardinality({k \in FreshAdvances :
                                        k < i /\ history[k].kind = "value"})
          IN  history[i] = IF before < UnderlyingLen THEN Returned(before + 1)
                           ELSE Raised("StopIteration")

\* witness of C13: an element was returned, redo was called twice, the next
\* advance returned the element again and the one after it the following
\* element
C13_Witness ==
    \E i \in 1..Len(history) :
        /\ i + 4 <= Len(history)
        /\ history[i].op = "next" /\ history[i].kind = "value"
        /\ history[i + 1].op = "redo"
        /\ history[i + 2].op = "redo"
        /\ history[i + 3] = history[i]
        /\ history[i + 4] = Returned(history[i].val + 1)

(***************************************************************************)
(* The counter                                                             *)
(***************************************************************************)
\* the planner's steps
InPlanner == pc \in {"plan_init", "planning", "plan_finish"}

\* C14: the counter is never below oldcounter; a step of the planner leaves
\* it unchanged or raises it by one; it goes down only in the rollback
\* (unarchive_threads), and then not below oldcounter.
C14_CounterInvariant ==
    /\ [](config.counter >= config.oldcounter)
    /\ [][/\ InPlanner => config'.counter \in {config.counter, config.counter + 1}
          /\ config'.counter < config.counter =>
                 /\ pc = "handler"
                 /\ rolled_back'
                 /\ config'.counter >= config.oldcounter]_vars

\* witness of C14: the rollback has taken the counter down: the plan names
\* a destination numbered above the counter that is left
C14_Witness ==
    /\ rolled_back
    /\ DependsOnCounter(config.archive)
    /\ \E i \in 1..Len(archives_to_touch) :
          \E c \in (config.counter + 1)..(config.counter + MaxThreads) :
              archives_to_touch[i].title = Subpage(0, c)

(***************************************************************************)
(* The destinations recorded as touched                                    *)
(***************************************************************************)
\* the writes sent to destinations, in order
ArchiveWrites == SelectSeq(writes, LAMBDA w : w.op \in {"append", "create"})

\* C15: a destination is in archives_actually_touched (and so in
\* archives_touched during and after the destination writes) only when its
\* append or create took effect; and once a destination write has raised,
\* no further destination is attempted in the run.
C15_TouchedOnlyIfWritten ==
    /\ Range(archives_actually_touched) \subseteq WrittenArchives
    /\ exc.phase = "archive" =>
           Len(ArchiveWrites) = Len(archives_actually_touched) + 1

(***************************************************************************)
(* The outer loop's error policy                                           *)
(***************************************************************************)
\* the except clause has dealt with the exception of the attempt
Handled == pc \in {"done", "redo"} /\ exc # NoExc

\* C16: a run that raises ArchiveError is skipped (no rollback, no replay);
\* a run that raises ApiError is attempted again once and only once: the
\* first attempt asks for the replay of the victim, a later attempt does
\* not; any other exception has unarchive_threads() run and the loop goes
\* on.  The loop thus gets past a page that keeps failing.
C16_OuterLoopPolicy ==
    Handled =>
        IF IsArchiveError(exc.type)
        THEN pc = "done" /\ ~rolled_back /\ ~subvictims.redo
        ELSE IF exc.type = "ApiError"
        THEN IF attempts = 1 THEN pc = "redo" /\ subvictims.redo
             ELSE pc = "done" /\ ~subvictims.redo
        ELSE pc = "done" /\ rolled_back /\ ~subvictims.redo

(***************************************************************************)
(* The spam blacklist                                                      *)
(***************************************************************************)
\* a guarded save (of the source page or of a destination) has been made
SaveMade == last_save.responses # <<>>

\* C17: a save that the wiki rejects with code 'spamblacklist' is sent a
\* second time, once; no other save is repeated; a second rejection is not
\* followed by a third request: it leaves the save as an exception and
\* nothing is written.
C17_SpamRetryOnce ==
    SaveMade =>
        /\ last_save.tries = IF last_save.responses[1] = "spamblacklist" THEN 2 ELSE 1
        /\ last_save.tries = Len(last_save.responses)
        /\ (last_save.tries = 2 /\ last_save.responses[2] = "spamblacklist") =>
               /\ last_save.raises # "none"
               /\ ~last_save.applied
               /\ ~rolled_back => exc.type = last_save.raises

\* witness of C17: a destination write was rejected twice by the blacklist
\* and the exception is on its way to the outer loop
C17_Witness ==
    /\ last_save.responses = <<"spamblacklist", "spamblacklist">>
    /\ pc = "handler"
    /\ exc.phase = "archive"
    /\ Len(ArchiveWrites) = 1

(***************************************************************************)
(* Threads without a usable timestamp                                      *)
(***************************************************************************)
\* a section whose heading is not at level 2 or in which no stamp was parsed
Undated(section) == section.level # 2 \/ section.stamps = {}

UndatedCount(secs) == Cardinality({i \in 1..Len(secs) : Undated(secs[i])})

\* age thresholds, in seconds: beyond the sentinel's distance in the
\* negative, negative, zero and positive
Thresholds ==
    {0 - 2 * FutureDays * SecondsPerDay, 0 - SecondsPerDay, 0, SecondsPerDay}

\* generate_threads has run
ThreadsExtracted ==
    pc \notin {"generate_config", "generate_threads"} /\ exc.phase # "config"

\* C18: a thread in which no stamp was parsed, or whose heading is not at
\* level 2, keeps the sentinel THE_FUTURE and oldenough = False whatever the
\* age threshold, negative ones included; it is recorded under no
\* destination, its slot is never cleared and it stays on the source page.
C18_UndatedNeverStale ==
    /\ \A section \in ThreadKinds \cup {TopLevelThread} : \A maxage \in Thresholds :
          Undated(section) =>
              /\ ParseStamp(ThreadDict(section), maxage).stamp = THE_FUTURE
              /\ ~ParseStamp(ThreadDict(section), maxage).oldenough
    /\ \A i \in 1..Len(threads) :
          Undated(threads[i].text) =>
              /\ threads[i].stamp = THE_FUTURE
              /\ ~threads[i].oldenough
              /\ DestinationsOf(i) = {}
              /\ Len(sections) = Len(threads) => sections[i] # Empty
    /\ ThreadsExtracted =>
           UndatedCount(wiki.threads) = UndatedCount([i \in 1..Len(threads) |-> threads[i].text])

\* witness of C18: a run has saved the source page without a stale thread
\* that stood below an undated one, which is still there
C18_Witness ==
    /\ pc = "done"
    /\ source_saved
    /\ \E i, j \in 1..Len(threads) :
          /\ i < j
          /\ Undated(threads[i].text)
          /\ sections[i] # Empty
          /\ sections[j] = Empty
    /\ UndatedCount(wiki.threads) > 0

(***************************************************************************)
(* The counter as configured                                               *)
(***************************************************************************)
\* the counter the policy is to hold for a configured text
ExpectedCounter(raw) ==
    CASE raw = <<"1">> -> 1
      [] raw = <<"2">> -> 2
      [] raw = <<"1", "2">> -> 12
      [] raw = <<"0">> -> 1
      [] raw = <<"0", "0">> -> 1
      [] raw = <<"x">> -> 1
      [] raw = <<"-", "3">> -> 1
      [] raw = <<"-", "3", "+", "4", "j">> -> 1
      [] raw = Unset -> 1

\* generate_config has just returned
ConfigExtracted == pc = "generate_threads"

\* C19: after generate_config the counter is an integer of at least 1: the
\* number written when the text is decimal digits of non-zero value, and 1
\* for zero, zeros, a negative or complex number or other text; the counter
\* text never is the cause of an error; oldcounter equals the counter.
C19_CounterCoercion ==
    /\ ConfigExtracted =>
           /\ config.counter = ExpectedCounter(content.template.counter)
           /\ config.counter >= 1
           /\ config.oldcounter = config.counter
    /\ exc.phase = "config" =>
           \/ ~content.template.tpl
           \/ content.template.minthreadsleft = <<"x">>

\* witness of C19: a negative counter was read as 1
C19_Witness ==
    /\ ConfigExtracted
    /\ content.template.counter = <<"-", "3">>
    /\ config.counter = 1
    /\ config.oldcounter = 1

(***************************************************************************)
(* str2size                                                                *)
(***************************************************************************)
\* str2size(arg) has returned or raised
SizeCalled == fn = "str2size" /\ result # Pending

\* the text is a run of digits followed by one letter
HasSuffix == arg # <<>> /\ Last(arg) \notin Digits

AmountText == IF HasSuffix THEN Front(arg) ELSE arg

\* the amount is written in decimal digits
AmountGiven == AmountText # <<>> /\ \A i \in 1..Len(AmountText) : AmountText[i] \in Digits

Amount == DecVal(AmountText)

\* the suffix in lower case
SuffixLetter ==
    CASE Last(arg) \in {"b", "B"} -> "b"
      [] Last(arg) \in {"k", "K"} -> "k"
      [] Last(arg) \in {"m", "M"} -> "m"
      [] Last(arg) \in {"t", "T"} -> "t"
      [] OTHER -> "?"

\* what a positive amount with one of the four suffixes gives
SuffixedSize ==
    CASE SuffixLetter = "b" -> <<Amount, "B">>
      [] SuffixLetter = "k" -> <<Amount * 1024, "B">>
      [] SuffixLetter = "m" -> <<Amount * 1024 * 1024, "B">>
      [] SuffixLetter = "t" -> <<Amount, "T">>

\* C20 as stated: b gives the amount in bytes, k times 1024, m times
\* 1024 * 1024, t the amount in threads, and no suffix means megabytes;
\* the suffix is matched in either case; a zero amount is rejected.
C20_AsStated ==
    (SizeCalled /\ AmountGiven) =>
        IF Amount = 0 THEN ~result.ok
        ELSE IF ~HasSuffix THEN result = Ok(<<Amount * 1024 * 1024, "B">>)
        ELSE SuffixLetter # "?" => result = Ok(SuffixedSize)

\* C20: b gives the amount in bytes, k times 1024, m times 1024 * 1024, t the
\* amount in threads, and no suffix gives the amount in bytes; the suffix is
\* matched in either case; a zero amount is rejected.
C20_Str2size ==
    (SizeCalled /\ AmountGiven) =>
        IF Amount = 0 THEN ~result.ok
        ELSE IF ~HasSuffix THEN result = Ok(<<Amount, "B">>)
        ELSE SuffixLetter # "?" => result = Ok(SuffixedSize)

\* witness of C20: "12" was taken as twelve bytes
C20_Witness ==
    /\ SizeCalled
    /\ arg = <<"1", "2">>
    /\ result = Ok(<<12, "B">>)

(***************************************************************************)
(* str2time and negative age thresholds                                    *)
(***************************************************************************)
\* str2time(arg) has returned or raised
TimeCalled == fn = "str2time" /\ result # Pending

\* the text without a suffix d or h, in either case
DurationBody == IF arg # <<>> /\ Last(arg) \in {"d", "D", "h", "H"} THEN Front(arg) ELSE arg

\* the text is an integer, with or without a sign, and at most a suffix
IntegerGiven ==
    /\ DurationBody # <<>>
    /\ LET digits == IF DurationBody[1] = "-" THEN Tail(DurationBody) ELSE DurationBody
       IN  digits # <<>> /\ \A i \in 1..Len(digits) : digits[i] \in Digits

\* the seconds of one unit of the suffix
SecondsPerUnit ==
    CASE Last(arg) \in {"d", "D"} -> 86400
      [] Last(arg) \in {"h", "H"} -> 3600
      [] OTHER -> 1

\* what str2time returns for an integer n: n * 86400 with d, n * 3600 with h,
\* n without a suffix, negative n included
Str2timeValues ==
    (TimeCalled /\ IntegerGiven) =>
        /\ result.ok
        /\ result.val = IntVal(DurationBody) * SecondsPerUnit

NegativeCallReturned ==
    /\ TimeCalled
    /\ arg = <<"-", "1", "H">>
    /\ result = Ok(0 - 3600)

\* the age threshold as written in the template is old(<negative integer>)
NegativeThreshold ==
    /\ content.template.algo.form = "old"
    /\ content.template.algo.arg # <<>>
    /\ content.template.algo.arg[1] = "-"
    /\ str2time(content.template.algo.arg).ok

\* C21: str2time gives n * 86400 seconds for "<n>d", n * 3600 for "<n>h" and
\* n for "<n>", negative n included; with a negative threshold configured,
\* once the threads are extracted every thread with a parsed stamp that is
\* not in the future is stale.
C21_NegativeMakesStale ==
    (ThreadsExtracted /\ NegativeThreshold) =>
        \A i \in 1..Len(threads) :
            (~Undated(threads[i].text) /\ MaxOf(threads[i].text.stamps) <= Now)
                => threads[i].oldenough

(***************************************************************************)
(* The capacity of a destination that is referenced again                  *)
(***************************************************************************)
\* the planner is at work or has just finished
Planning == pc \in {"planning", "plan_finish"}

\* the threads accepted into a destination in this run
AcceptedInto(d) == Len(indexes_in_archives[d])

\* C22: under a limit of L threads, the threads a destination held when it
\* was first read plus the threads accepted into it in this run are at most
\* L, for every destination of the plan, one that is referenced again from
\* the cache after another destination was used included.
C22_PerDestinationCapacity ==
    (Planning /\ max_arch_size[2] = "T") =>
        \A d \in DOMAIN indexes_in_archives :
            remote_existing[d].count + AcceptedInto(d) <= max_arch_size[1]

(***************************************************************************)
(* The byte limit and the empty destination                                *)
(***************************************************************************)
\* the planner is about to treat a stale thread
AtStaleThread ==
    IF pc = "planning" /\ ItHasNext(threads_with_indices)
    THEN ~KeepFloorReached /\ threads[ItNext(threads_with_indices).val].oldenough
    ELSE FALSE

\* that thread's index and its destination under the current counter
CurrentIndex == ItNext(threads_with_indices).val

CurrentDestination == Subpage(threads[CurrentIndex].stamp, config.counter)

\* the bytes accepted into a destination so far in this run
AccumulatedBytes(d) ==
    IF TitleIndex(archives_to_touch, d) = 0 THEN 0
    ELSE SumLen(archives_to_touch[TitleIndex(archives_to_touch, d)].content)

\* the step accepts the current thread into its destination
AcceptsCurrent ==
    /\ sections'[CurrentIndex] = Empty
    /\ CurrentDestination \in DOMAIN indexes_in_archives'
    /\ Last(indexes_in_archives'[CurrentDestination]) = CurrentIndex
    /\ arched_so_far' = arched_so_far + 1

\* the step bumps the counter and replays the thread, or stops planning
BumpsCounter == config'.counter # config.counter

\* a step of the planner on a stale thread under a limit in bytes
ByteLimitStep == AtStaleThread /\ max_arch_size[2] = "B" /\ vars' # vars

\* C23 as stated: under a limit in bytes a destination into which no byte
\* was accepted in this run takes the current thread, whatever its size,
\* and the counter is not bumped.
C23_AsStated ==
    [][(ByteLimitStep /\ AccumulatedBytes(CurrentDestination) = 0)
          => (AcceptsCurrent /\ ~BumpsCounter)]_vars

\* C23: under a limit in bytes a destination whose running size (what it
\* held when first read plus what was accepted into it in this run) is zero
\* takes the current thread, whatever its size, and the counter is not
\* bumped; the counter is bumped only for a destination whose running size
\* is not zero.
C23_EmptyDestinationAccepts ==
    [][ByteLimitStep =>
          LET own == remote_existing'[CurrentDestination].size
                       + AccumulatedBytes(CurrentDestination)
          IN  /\ own = 0 => (AcceptsCurrent /\ ~BumpsCounter)
              /\ BumpsCounter => (own # 0 /\ ~AcceptsCurrent)]_vars

\* witness of C23: a thread longer than the limit was accepted into a
\* destination that held nothing, after a bump away from a destination that
\* did
C23_Witness ==
    /\ Planning
    /\ max_arch_size[2] = "B"
    /\ config.counter > config.oldcounter
    /\ \E d \in DOMAIN indexes_in_archives :
          /\ remote_existing[d].size = 0
          /\ Len(indexes_in_archives[d]) = 1
          /\ threads[indexes_in_archives[d][1]].text.len > max_arch_size[1]

(***************************************************************************)
(* Termination of the planning loop                                        *)
(***************************************************************************)
\* the cursor will deliver the current thread again
ReplayPending == threads_with_indices.redo

\* the thread the cursor delivered last
Delivered == threads_with_indices.val

\* the planner is about to treat the stale thread of index i
AtStale(i) == IF AtStaleThread THEN CurrentIndex = i ELSE FALSE

\* the slot of the thread of index i is empty
Cleared(i) == IF i \in 1..Len(sections) THEN sections[i] = Empty ELSE FALSE

\* the planning loop is over (or was never entered)
PlanningStopped == pc # "planning"

\* C24: the cursor is asked to replay a thread only by a step of the planner
\* that raises the counter by exactly 1 and so changes the destination name;
\* the replay delivers the same thread; and the loop terminates: every stale
\* thread the loop comes to is in the end accepted, or planning stops (the
\* destinations numbered above MaxExistingCounter are not at capacity).
C24_PlanningTerminates ==
    /\ [][ReplayPending' =>
             /\ pc = "planning" /\ pc' = "planning"
             /\ config'.counter = config.counter + 1
             /\ Delivered' = CurrentIndex
             /\ Subpage(threads[CurrentIndex].stamp, config'.counter)
                    # Subpage(threads[CurrentIndex].stamp, config.counter)
             /\ sections' = sections]_vars
    /\ [][(ReplayPending /\ pc = "planning") => CurrentIndex = Delivered]_vars
    /\ \A i \in 1..MaxThreads :
          AtStale(i) ~> (Cleared(i) \/ PlanningStopped)
    /\ (pc = "planning") ~> PlanningStopped

\* witness of C24: a thread was accepted after two replays in a row, the
\* counter being two above its start
C24_Witness ==
    /\ pc = "planning"
    /\ ~ReplayPending
    /\ config.counter = config.oldcounter + 2
    /\ arched_so_far = 1
    /\ Len(archives_to_touch) = 1
    /\ archives_to_touch[1].title = Subpage(0, config.counter)
    /\ DependsOnCounter(config.archive)

(***************************************************************************)
(* update() when the rebuilt text is the fetched one                       *)
(***************************************************************************)
\* update() has returned or raised
UpdateCalled == fn = "update" /\ result # Pending

\* the text update() built is the content that was fetched: no section is
\* removed and the template's values are those the page was fetched with
TextUnchanged ==
    /\ \A i \in 1..Len(sections) : sections[i] # Empty
    /\ talkhead.counter = BaseTemplate.counter
    /\ talkhead.archive = BaseTemplate.archive

\* destinations were passed to update(): a plan exists
PlanPassed == archives_touched # {}

\* no request was sent to the wiki
NoRemoteWrite == writes = <<>> /\ remote_archives = <<>>

PlanChangesContent ==
    (pc = "update" /\ PlanPassed) =>
        /\ \E i \in 1..Len(sections) : sections[i] = Empty
        /\ PageText(RebuiltTalkhead, sections) # content

\* in a run, update() with nothing planned and the text unchanged is followed
\* by the end of the run without a request sent
RunNoOp ==
    /\ pc = "done"
    /\ exc = NoExc
    /\ archives_touched = {}
    /\ config.minthreadstoarchive = 0
    /\ arched_so_far = 0
    /\ arch_pages # <<>>
    /\ writes = <<>>

\* in a run, an ArchiveError raised by update() leaves the wiki as it was:
\* the outer loop skips the page, no request is sent
UpdateErrorWritesNothing ==
    (exc = [type |-> "ArchiveError", phase |-> "update"]) => NoRemoteWrite

UpdateErrorSkipped ==
    /\ exc = [type |-> "ArchiveError", phase |-> "update"]
    /\ pc = "done"

(***************************************************************************)
(* The order in which threads are accepted                                 *)
(***************************************************************************)
\* the threads the planner accepted
Accepted == {i \in 1..Len(threads) : DestinationsOf(i) # {}}

\* C26: the accepted threads are stale, and they are a prefix of the stale
\* threads in ascending order of stamp (ties in page order): a stale thread
\* older than an accepted one is accepted too, whatever stopped the planner;
\* the indices recorded under a destination are in that order.
C26_AgeOrderPrefix ==
    /\ \A i \in Accepted :
          /\ threads[i].oldenough
          /\ \A j \in StaleIndices : Before(j, i) => j \in Accepted
    /\ \A d \in DOMAIN indexes_in_archives :
          \A k, l \in 1..Len(indexes_in_archives[d]) :
              k < l => Before(indexes_in_archives[d][k], indexes_in_archives[d][l])

\* witness of C26: the floor stopped the planner after it took the older of
\* two stale threads, which stands below the younger one on the page
C26_Witness ==
    /\ pc = "plan_finish"
    /\ \E i, j \in StaleIndices :
          /\ i < j
          /\ Before(j, i)
          /\ j \in Accepted
          /\ i \notin Accepted
          /\ sections[i] # Empty

(***************************************************************************)
(* Conservation of threads                                                 *)
(***************************************************************************)
\* number of positions of a sequence that hold x
CountIn(seq, x) == Cardinality({k \in 1..Len(seq) : seq[k] = x})

\* number of times an index is recorded in the plan, all destinations together
RECURSIVE TimesRecorded(_, _)
TimesRecorded(D, i) ==
    IF D = {} THEN 0
    ELSE LET d == CHOOSE t \in D : TRUE
         IN  CountIn(indexes_in_archives[d], i) + TimesRecorded(D \ {d}, i)

\* number of copies of a thread text this program appended to destinations
RECURSIVE ArchivedCopies(_, _)
ArchivedCopies(D, x) ==
    IF D = {} THEN 0
    ELSE LET d == CHOOSE t \in D : TRUE
         IN  CountIn(remote_archives[d], x) + ArchivedCopies(D \ {d}, x)

\* the slots are those of the extracted threads and no rollback has put
\* threads back
SlotsFollowPlan == Len(sections) = Len(threads) /\ ~rolled_back

\* a slot is empty exactly when its index is recorded once, under one
\* destination; no index is recorded twice
SlotsMatchPlan ==
    SlotsFollowPlan =>
        \A i \in 1..Len(threads) :
            /\ TimesRecorded(DOMAIN indexes_in_archives, i) <= 1
            /\ (sections[i] = Empty) <=> (TimesRecorded(DOMAIN indexes_in_archives, i) = 1)

\* the run went through the planner and returned without raising
RunReturned == pc = "done" /\ exc = NoExc /\ arch_pages # <<>>

\* every thread text of the fetched page is on the wiki as often as it was
\* on the page: on the source page or in the destinations
EveryThreadInOnePlace ==
    \A i \in 1..Len(threads) :
        LET x == threads[i].text
        IN  CountIn(wiki.threads, x) + ArchivedCopies(DOMAIN remote_archives, x)
                = Cardinality({j \in 1..Len(threads) : threads[j].text = x})

\* C27: from the start of planning until a rollback puts threads back, a
\* slot is empty exactly when its index is recorded under exactly one
\* destination, once; and when the run returns without a failure every
\* thread of the fetched page is in exactly one place: on the source page
\* as saved, or appended once to one destination.
C27_ThreadConservation ==
    /\ SlotsMatchPlan
    /\ RunReturned => EveryThreadInOnePlace

\* every request the run sent took effect
AllRequestsApplied == \A k \in 1..Len(writes) : writes[k].applied

\* conservation in the runs whose every request took effect
ConservedWhenApplied == (RunReturned /\ AllRequestsApplied) => EveryThreadInOnePlace

\* such a run moved two threads to two destinations
TwoThreadsMoved ==
    /\ RunReturned
    /\ AllRequestsApplied
    /\ Cardinality(DOMAIN remote_archives) = 2
    /\ Len(wiki.threads) = Len(threads) - 2

====
